---- MODULE Spec2Model ----
(***************************************************************************)
(* Model of generator_with_index.py: the RONAVI generator that keeps the   *)
(* local manifest rgeres_index.json and optionally pushes the generated    *)
(* files and the manifest to a GitHub repository (Contents API).           *)
(*                                                                         *)
(* One behaviour is a sequence of runs of main() over the same output      *)
(* directory and the same remote repository.  main() is cut at its remote  *)
(* calls (requests.get / requests.put), where the remote store and other   *)
(* writers of the repository interleave; everything local between two      *)
(* remote calls is one step.                                               *)
(*                                                                         *)
(* Spec:      a fresh output directory on a disk that takes every write.   *)
(* SpecFault: the same program, started on a manifest that may be damaged, *)
(*            on a disk where the write of the manifest may fail part-way. *)
(***************************************************************************)
EXTENDS Naturals, Integers, Sequences, FiniteSets, TLC

\* ------------------------------------------------------------------ bounds
\* Number of runs of the process over the same output directory.
MaxRuns == 2
\* Number of writes another client makes to the remote repository.
MaxOtherWrites == 1

\* --------------------------------------------------------------- constants
INDEX_FILENAME == "rgeres_index.json"

\* Python's None for string-valued optionals, and for an optional blob sha.
None == "None"
NoSha == <<>>

\* The two templates (their text abbreviated to the first line).
LOCAL_TEMPLATES ==
    [server |-> "-- ronavi_server.lua", local |-> "-- ronavi_local.lua"]

\* Texts the AI provider may return (resp.choices[0].message.content).
AIContents == {"-- lua from gpt-4"}

\* Ways the AI production fails: openai not installed, OPENAI_API_KEY not set,
\* ChatCompletion.create raising.
ProductionErrors == {"openai package not installed", "OPENAI_API_KEY not set", "provider error"}

\* argparse: the values of --mode, --type, --repo and --github-token.
Modes == {"local", "ai"}
Types == {"server", "local", "both"}
Repos == {None, "khfzl2/my-repo"}
Tokens == {None, "GH_TOKEN"}
ArgSpace == [mode : Modes, type : Types, repo : Repos, github_token : Tokens]

\* The list of (stype, fname) main() builds from --type.
to_create(type) ==
    (IF type \in {"server", "both"}
        THEN << [stype |-> "server", fname |-> "ronavi_server.lua"] >> ELSE << >>)
    \o
    (IF type \in {"local", "both"}
        THEN << [stype |-> "local", fname |-> "ronavi_local.lua"] >> ELSE << >>)

Fnames == {"ronavi_server.lua", "ronavi_local.lua"}
RemotePaths == Fnames \cup {INDEX_FILENAME}

generate_local_script(stype) == LOCAL_TEMPLATES[stype]

\* The sync test looking at --repo only.
SyncRequestedRepoOnly(a) == a.repo # None

\* `args.repo and args.github_token`: both given (None is falsy).
SyncRequested(a) == a.repo # None /\ a.github_token # None

\* ------------------------------------------------------- the manifest file
\* The content of outdir/rgeres_index.json as json.load sees it:
\*   missing      no such file
\*   list         a JSON array (entries: its elements)
\*   object       a JSON object;  scalar: a JSON number, string, ...
\*   unparseable  bytes that are not JSON
\*   partial      what open(idx_path, "w") followed by an incomplete json.dump
\*                leaves behind (a truncated file; not JSON either)
MissingFile == [kind |-> "missing", entries |-> << >>]
ListFile(es) == [kind |-> "list", entries |-> es]
CorruptFile(k) == [kind |-> k, entries |-> << >>]

\* An element of the array that is a JSON object with the five keys ...
IndexEntry(name, path, source, timestamp, blob_sha) ==
    [dict |-> TRUE, name |-> name, path |-> path, source |-> source,
     timestamp |-> timestamp, blob_sha |-> blob_sha]
\* ... and one that is no JSON object (a number, a string, null).
NotADict == [dict |-> FALSE]

\* os.path.relpath(os.path.join(outdir, filename), start=outdir): for a file
\* name without separators, the name itself.
RelPath(filename) == filename

\* Lines 163-172: the entries update_local_index starts from.
LoadEntries(file) ==
    CASE file.kind = "missing" -> << >>                     \* os.path.exists false
      [] file.kind \in {"unparseable", "partial"} -> << >>  \* except Exception
      [] file.kind \in {"object", "scalar"} -> << >>        \* not isinstance(list)
      [] file.kind = "list" -> file.entries

\* The scan finding no entry, whatever the list holds.
ScanEntriesFindsNone(entries, rel_path, k) == [raised |-> FALSE, at |-> 0]

\* Lines 179-183: the scan for the first entry with the path.  at = 0: none.
\* e.get("path") on an element that is no dict raises AttributeError.
RECURSIVE ScanEntries(_, _, _)
ScanEntries(entries, rel_path, k) ==
    IF k > Len(entries) THEN [raised |-> FALSE, at |-> 0]
    ELSE IF ~entries[k].dict THEN [raised |-> TRUE, at |-> k]
    ELSE IF entries[k].path = rel_path THEN [raised |-> FALSE, at |-> k]
    ELSE ScanEntries(entries, rel_path, k + 1)

\* e.update without the "blob_sha" key.
UpdateEntryWithoutSha(e, filename, source, now, blob_sha) ==
    [e EXCEPT !.name = filename, !.source = source, !.timestamp = now]

\* Line 181: e.update({...}) overwrites four keys and keeps the others.
UpdateEntry(e, filename, source, now, blob_sha) ==
    [e EXCEPT !.name = filename, !.source = source,
              !.timestamp = now, !.blob_sha = blob_sha]

\* Upsert without the scan for an existing entry: every call appends.
UpsertAlwaysAppends(entries, filename, source, now, blob_sha) ==
    Append(entries, IndexEntry(filename, RelPath(filename), source, now, blob_sha))

\* Upsert putting the entry of a new path first.
UpsertInsertsFirst(entries, filename, source, now, blob_sha) ==
    LET hit == ScanEntries(entries, RelPath(filename), 1) IN
    IF hit.at # 0
        THEN [entries EXCEPT ![hit.at] =
                 UpdateEntry(entries[hit.at], filename, source, now, blob_sha)]
        ELSE << IndexEntry(filename, RelPath(filename), source, now, blob_sha) >>
                 \o entries

\* Upsert replacing the entry of a known path by a new one at the end.
UpsertMovesToEnd(entries, filename, source, now, blob_sha) ==
    LET others(e) == ~e.dict \/ e.path # RelPath(filename) IN
    Append(SelectSeq(entries, others),
           IndexEntry(filename, RelPath(filename), source, now, blob_sha))

\* Upsert leaving the hash of a known path alone when it is given none.
UpsertKeepsHash(entries, filename, source, now, blob_sha) ==
    LET hit == ScanEntries(entries, RelPath(filename), 1) IN
    IF hit.at # 0
        THEN [entries EXCEPT ![hit.at] =
                 UpdateEntry(entries[hit.at], filename, source, now,
                             IF blob_sha = NoSha THEN entries[hit.at].blob_sha
                             ELSE blob_sha)]
        ELSE Append(entries,
                 IndexEntry(filename, RelPath(filename), source, now, blob_sha))

\* Lines 177-192: update the entry with the path in place, else append.
Upsert(entries, filename, source, now, blob_sha) ==
    LET hit == ScanEntries(entries, RelPath(filename), 1) IN
    IF hit.at # 0
        THEN [entries EXCEPT ![hit.at] =
                 UpdateEntry(entries[hit.at], filename, source, now, blob_sha)]
        ELSE Append(entries,
                 IndexEntry(filename, RelPath(filename), source, now, blob_sha))

\* update_local_index taking blob_sha None as "keep the hash the entry has".
update_local_index_keeps_sha(file, filename, source, blob_sha, now) ==
    LET entries == LoadEntries(file)
        hit == ScanEntries(entries, RelPath(filename), 1)
        kept == IF blob_sha = NoSha /\ hit.at # 0
                    THEN entries[hit.at].blob_sha ELSE blob_sha
    IN  IF hit.raised
            THEN [raised |-> TRUE, file |-> file]
            ELSE [raised |-> FALSE,
                  file |-> ListFile(Upsert(entries, filename, source, now, kept))]

\* update_local_index as a whole, on a disk that takes the write:
\* raised = TRUE when the scan raises (the file is then not written).
update_local_index(file, filename, source, blob_sha, now) ==
    LET entries == LoadEntries(file)
        hit == ScanEntries(entries, RelPath(filename), 1) IN
    IF hit.raised
        THEN [raised |-> TRUE, file |-> file]
        ELSE [raised |-> FALSE,
              file |-> ListFile(Upsert(entries, filename, source, now, blob_sha))]

\* -------------------------------------------------------- the remote store
\* The repository's content at a path: no object, or a blob of bytes.
Absent == [exists |-> FALSE]
Blob(bytes) == [exists |-> TRUE, content |-> bytes]

\* The blob sha the store reports for bytes: a function of the bytes only.
Sha(bytes) == << bytes >>

\* Non-success statuses the API answers with whatever the path holds
\* (bad credentials, server error).  0 stands for "no fault".
FaultStatuses == {401, 500}
Faults == {0} \cup FaultStatuses

\* GET /repos/{owner}/{name}/contents/{path}?ref=...
StoreGet(store, path, fault) ==
    IF fault # 0 THEN [status |-> fault, sha |-> NoSha]
    ELSE IF store[path].exists
        THEN [status |-> 200, sha |-> Sha(store[path].content)]
        ELSE [status |-> 404, sha |-> NoSha]

\* PUT /repos/{owner}/{name}/contents/{path} with {message, content, branch, sha?}:
\* create without sha on a free path (201), update with the current sha (200),
\* a client error on a missing (422) or stale (409) sha.
StorePut(store, req, fault) ==
    LET cur == store[req.path]
        stored == [status |-> IF cur.exists THEN 200 ELSE 201,
                   sha |-> Sha(req.content),
                   store |-> [store EXCEPT ![req.path] = Blob(req.content)]]
        refused(code) == [status |-> code, sha |-> NoSha, store |-> store]
    IN  IF fault # 0 THEN refused(fault)
        ELSE IF ~cur.exists
            THEN (IF req.sha = NoSha THEN stored ELSE refused(409))
        ELSE IF req.sha = NoSha THEN refused(422)
        ELSE IF req.sha = Sha(cur.content) THEN stored
        ELSE refused(409)

\* ------------------------------------------------------- the GitHub helpers
NoDescriptor == [found |-> FALSE, sha |-> NoSha]

\* gh_get_file, lines 216-218: the response's JSON on 200, else None.
gh_get_file(response) ==
    IF response.status = 200
        THEN [found |-> TRUE, sha |-> response.sha]
        ELSE NoDescriptor

\* The put sent without the sha of the descriptor.
ExpectedShaDropped(descriptor) == NoSha

\* Lines 296 and 312: sha = existing["sha"] if existing else None.
ExpectedSha(descriptor) == IF descriptor.found THEN descriptor.sha ELSE NoSha

\* gh_put_file, lines 230-237: the request; `if sha:` adds the key only for
\* a sha given (NoSha: no "sha" key in the payload).
gh_put_request(path, content_bytes, sha) ==
    [method |-> "PUT", path |-> path, content |-> content_bytes, sha |-> sha]

gh_get_request(path) == [method |-> "GET", path |-> path]

\* gh_put_file returning on a refused put as it does on a stored one.
PutSucceededOrRefused(response) == response.status \in {200, 201, 409, 422}

\* gh_put_file, lines 238-241: 200 and 201 return, anything else raises.
PutSucceeded(response) == response.status \in {200, 201}

\* ---------------------------------------------------------------- the state
VARIABLES
    runNo,        \* number of runs of main() started so far
    args,         \* the parsed command line of the current run
    pc,           \* where main() stands: start | generate | get_file | put_file |
                  \*   idx_get | idx_put | done | raised
    i,            \* position in to_create of the artifact being processed
    contents,     \* the bytes of the artifact being processed
    files,        \* outdir: file name -> bytes (None: no such file)
    file_idx,     \* outdir/rgeres_index.json
    idx_bytes,    \* line 309: the manifest bytes read for the push
    remote,       \* the repository: path -> Absent | Blob
    response,     \* gh_get_file's resp: the answer to the GET of the push under way
    existing,     \* existing / existing_idx: what gh_get_file returned
    blob_sha,     \* line 298: the sha of the latest successful put of an artifact
    calls,        \* the requests sent for the push under way (of the
                  \*   artifact of this iteration, or of the manifest), in order
    stdout,       \* what this run has printed, in order
    exc,          \* the exception that ended the run (None: none)
    idx_at_start, \* the manifest as the current run found it
    otherWrites   \* writes made by other clients of the repository

vars == << runNo, args, pc, i, contents, files, file_idx, idx_bytes, remote,
           response, existing, blob_sha, calls, stdout, exc, idx_at_start,
           otherWrites >>

NoResponse == [status |-> 0, sha |-> NoSha]
NoArgs == [mode |-> "local", type |-> "both", repo |-> None, github_token |-> None]

\* A printed line: the message and the file it is about.
Out(msg, file) == [msg |-> msg, file |-> file]

\* The clock: datetime.utcnow() as far as the model tells instants apart.
Now == runNo

Batch == to_create(args.type)
stype == Batch[i].stype
fname == Batch[i].fname

\* A fresh output directory and an empty repository; the manifest is missing
\* or holds an empty array.
InitCommon ==
    /\ runNo = 0
    /\ args = NoArgs
    /\ pc = "start"
    /\ i = 1
    /\ contents = None
    /\ files = [f \in Fnames |-> None]
    /\ idx_bytes = MissingFile
    /\ remote = [p \in RemotePaths |-> Absent]
    /\ response = NoResponse
    /\ existing = NoDescriptor
    /\ blob_sha = NoSha
    /\ calls = << >>
    /\ stdout = << >>
    /\ exc = None
    /\ otherWrites = 0

Init ==
    /\ InitCommon
    /\ file_idx \in {MissingFile, ListFile(<< >>)}
    /\ idx_at_start = file_idx

\* The process is started (again) with some command line.
StartRun ==
    /\ pc \in {"start", "done", "raised"}
    /\ runNo < MaxRuns
    /\ runNo' = runNo + 1
    /\ args' \in ArgSpace
    /\ pc' = "generate"
    /\ i' = 1
    /\ contents' = None
    /\ idx_bytes' = MissingFile
    /\ response' = NoResponse
    /\ existing' = NoDescriptor
    /\ blob_sha' = NoSha
    /\ calls' = << >>
    /\ stdout' = << >>
    /\ exc' = None
    /\ idx_at_start' = file_idx
    /\ UNCHANGED << files, file_idx, remote, otherWrites >>

\* The loop goes on with the next artifact (the for statement, line 268).
NextArtifact ==
    /\ i' = i + 1
    /\ pc' = "generate"

\* Lines 284-292 for contents c: save_file, update_local_index with
\* blob_sha None, then the push only `if args.repo and args.github_token`.
\* An exception of update_local_index is not caught: it ends the run.
SaveAndIndex(c) ==
    LET r == update_local_index(file_idx, fname, args.mode, NoSha, Now) IN
    /\ contents' = c
    /\ files' = [files EXCEPT ![fname] = c]
    /\ IF r.raised
          THEN /\ pc' = "raised"
               /\ exc' = "AttributeError"
               /\ stdout' = Append(stdout, Out("Saved", fname))
               /\ UNCHANGED << file_idx, i >>
          ELSE /\ file_idx' = r.file
               /\ stdout' = stdout \o << Out("Saved", fname), Out("Updated local index", fname) >>
               /\ exc' = exc
               /\ IF SyncRequested(args)
                     THEN pc' = "get_file" /\ i' = i
                     ELSE NextArtifact
    /\ calls' = << >>
    /\ UNCHANGED << runNo, args, idx_bytes, remote, response, existing, blob_sha,
                    idx_at_start, otherWrites >>

\* Lines 269-270 and 284-292: --mode local.
GenerateLocal ==
    /\ pc = "generate"
    /\ i <= Len(Batch)
    /\ args.mode = "local"
    /\ SaveAndIndex(generate_local_script(stype))

\* Lines 271-282 and 284-292: --mode ai, the provider answers.
GenerateAI ==
    /\ pc = "generate"
    /\ i <= Len(Batch)
    /\ args.mode = "ai"
    /\ \E c \in AIContents : SaveAndIndex(c)

\* The production raising with the exception caught per artifact: the loop
\* goes on with the next artifact.
ProductionFailsArtifactOnly ==
    /\ pc = "generate"
    /\ i <= Len(Batch)
    /\ args.mode = "ai"
    /\ \E e \in ProductionErrors : exc' = e
    /\ NextArtifact
    /\ UNCHANGED << runNo, args, contents, files, file_idx, idx_bytes, remote,
                    response, existing, blob_sha, calls, stdout, idx_at_start,
                    otherWrites >>

\* Lines 273-281: --mode ai, the production raises; nothing catches it.
ProductionFails ==
    /\ pc = "generate"
    /\ i <= Len(Batch)
    /\ args.mode = "ai"
    /\ \E e \in ProductionErrors : exc' = e
    /\ pc' = "raised"
    /\ UNCHANGED << runNo, args, i, contents, files, file_idx, idx_bytes, remote,
                    response, existing, blob_sha, calls, stdout, idx_at_start,
                    otherWrites >>

\* The iteration ends: its locals (resp, existing, sha) are dead, the next
\* iteration assigns them before it reads them.
LeaveArtifact ==
    /\ NextArtifact
    /\ response' = NoResponse
    /\ existing' = NoDescriptor

\* Line 295: gh_get_file for the artifact; the store answers with a status.
GetFile ==
    /\ pc = "get_file"
    /\ \E fault \in Faults :
          LET r == StoreGet(remote, fname, fault) IN
          /\ response' = r
          /\ existing' = gh_get_file(r)
    /\ calls' = Append(calls, gh_get_request(fname))
    /\ pc' = "put_file"
    /\ UNCHANGED << runNo, args, i, contents, files, file_idx, idx_bytes, remote,
                    blob_sha, stdout, exc, idx_at_start, otherWrites >>

\* Line 295 raising (requests.get fails to connect): caught at line 302.
GetFileRaises ==
    /\ pc = "get_file"
    /\ calls' = Append(calls, gh_get_request(fname))
    /\ stdout' = Append(stdout, Out("Failed to push file to GitHub", fname))
    /\ LeaveArtifact
    /\ UNCHANGED << runNo, args, contents, files, file_idx, idx_bytes, remote,
                    blob_sha, exc, idx_at_start, otherWrites >>

\* Lines 296-303: the put with the sha of `existing`; on 200/201 the index
\* entry gets the returned blob sha, anything raised is caught at line 302.
\* contents.encode("utf-8") and the base64 of the payload are undone by the
\* store: the bytes it keeps are the bytes of the text.
PutFile ==
    /\ pc = "put_file"
    /\ \E fault \in Faults :
          LET req == gh_put_request(fname, contents, ExpectedSha(existing))
              r == StorePut(remote, req, fault)
              u == update_local_index(file_idx, fname, args.mode, r.sha, Now)
          IN  /\ calls' = Append(calls, req)
              /\ remote' = r.store
              /\ IF ~PutSucceeded(r)
                    THEN /\ stdout' = Append(stdout, Out("Failed to push file to GitHub", fname))
                         /\ UNCHANGED << file_idx, blob_sha >>
                    ELSE IF u.raised
                    THEN /\ stdout' = stdout \o << Out("Pushed", fname),
                                                   Out("Failed to push file to GitHub", fname) >>
                         /\ blob_sha' = r.sha
                         /\ file_idx' = file_idx
                    ELSE /\ stdout' = Append(stdout, Out("Pushed", fname))
                         /\ blob_sha' = r.sha
                         /\ file_idx' = u.file
    /\ LeaveArtifact
    /\ UNCHANGED << runNo, args, contents, files, idx_bytes, exc, idx_at_start,
                    otherWrites >>

\* Line 297 raising with no try around the push: the exception ends the run.
PutFileRaisesUncaught ==
    /\ pc = "put_file"
    /\ calls' = Append(calls, gh_put_request(fname, contents, ExpectedSha(existing)))
    /\ pc' = "raised"
    /\ exc' = "ConnectionError"
    /\ UNCHANGED << runNo, args, i, contents, files, file_idx, idx_bytes, remote,
                    response, existing, blob_sha, stdout, idx_at_start, otherWrites >>

\* Line 297 raising before any response (requests.put fails to connect).
PutFileRaises ==
    /\ pc = "put_file"
    /\ calls' = Append(calls, gh_put_request(fname, contents, ExpectedSha(existing)))
    /\ stdout' = Append(stdout, Out("Failed to push file to GitHub", fname))
    /\ LeaveArtifact
    /\ UNCHANGED << runNo, args, contents, files, file_idx, idx_bytes, remote,
                    blob_sha, exc, idx_at_start, otherWrites >>

\* The manifest bytes for the push read before the loop instead of after it.
AfterLoopReadsEarly ==
    /\ pc = "generate"
    /\ i > Len(Batch)
    /\ IF SyncRequested(args) /\ file_idx.kind # "missing"
          THEN /\ idx_bytes' = idx_at_start
               /\ pc' = "idx_get"
               /\ stdout' = stdout
          ELSE /\ idx_bytes' = idx_bytes
               /\ pc' = "done"
               /\ stdout' = Append(stdout, Out("Done.", None))
    /\ calls' = << >>
    /\ UNCHANGED << runNo, args, i, contents, files, file_idx, remote, response,
                    existing, blob_sha, exc, idx_at_start, otherWrites >>

\* Lines 305-309 and 318: after the loop, read the manifest for its push when
\* the push is asked for and the file exists; else the run is done.
AfterLoop ==
    /\ pc = "generate"
    /\ i > Len(Batch)
    /\ IF SyncRequested(args) /\ file_idx.kind # "missing"
          THEN /\ idx_bytes' = file_idx
               /\ pc' = "idx_get"
               /\ stdout' = stdout
          ELSE /\ idx_bytes' = idx_bytes
               /\ pc' = "done"
               /\ stdout' = Append(stdout, Out("Done.", None))
    /\ calls' = << >>
    /\ UNCHANGED << runNo, args, i, contents, files, file_idx, remote, response,
                    existing, blob_sha, exc, idx_at_start, otherWrites >>

\* Line 311: gh_get_file for the manifest.
IdxGet ==
    /\ pc = "idx_get"
    /\ \E fault \in Faults :
          LET r == StoreGet(remote, INDEX_FILENAME, fault) IN
          /\ response' = r
          /\ existing' = gh_get_file(r)
    /\ calls' = Append(calls, gh_get_request(INDEX_FILENAME))
    /\ pc' = "idx_put"
    /\ UNCHANGED << runNo, args, i, contents, files, file_idx, idx_bytes, remote,
                    blob_sha, stdout, exc, idx_at_start, otherWrites >>

\* main() returns (line 318); its locals go with it.
Finish ==
    /\ pc' = "done"
    /\ response' = NoResponse
    /\ existing' = NoDescriptor

\* Line 311 raising: caught at line 315; line 318.
IdxGetRaises ==
    /\ pc = "idx_get"
    /\ calls' = Append(calls, gh_get_request(INDEX_FILENAME))
    /\ stdout' = stdout \o << Out("Failed to push index to GitHub", INDEX_FILENAME),
                              Out("Done.", None) >>
    /\ Finish
    /\ UNCHANGED << runNo, args, i, contents, files, file_idx, idx_bytes, remote,
                    blob_sha, exc, idx_at_start, otherWrites >>

\* The put of the manifest followed, as the put of an artifact is, by
\* update_local_index for the path put.
IdxPutIndexesItself ==
    /\ pc = "idx_put"
    /\ \E fault \in Faults :
          LET req == gh_put_request(INDEX_FILENAME, idx_bytes, ExpectedSha(existing))
              r == StorePut(remote, req, fault)
              u == update_local_index(file_idx, INDEX_FILENAME, args.mode, r.sha, Now)
          IN  /\ calls' = Append(calls, req)
              /\ remote' = r.store
              /\ file_idx' = IF PutSucceeded(r) THEN u.file ELSE file_idx
              /\ stdout' = stdout \o
                    << Out(IF PutSucceeded(r) THEN "Pushed index"
                           ELSE "Failed to push index to GitHub", INDEX_FILENAME),
                       Out("Done.", None) >>
    /\ Finish
    /\ UNCHANGED << runNo, args, i, contents, files, idx_bytes,
                    blob_sha, exc, idx_at_start, otherWrites >>

\* Lines 312-318: the put of the manifest bytes read at line 309.
IdxPut ==
    /\ pc = "idx_put"
    /\ \E fault \in Faults :
          LET req == gh_put_request(INDEX_FILENAME, idx_bytes, ExpectedSha(existing))
              r == StorePut(remote, req, fault)
          IN  /\ calls' = Append(calls, req)
              /\ remote' = r.store
              /\ stdout' = stdout \o
                    << Out(IF PutSucceeded(r) THEN "Pushed index"
                           ELSE "Failed to push index to GitHub", INDEX_FILENAME),
                       Out("Done.", None) >>
    /\ Finish
    /\ UNCHANGED << runNo, args, i, contents, files, file_idx, idx_bytes,
                    blob_sha, exc, idx_at_start, otherWrites >>

\* Line 313 raising before any response.
IdxPutRaises ==
    /\ pc = "idx_put"
    /\ calls' = Append(calls,
                    gh_put_request(INDEX_FILENAME, idx_bytes, ExpectedSha(existing)))
    /\ stdout' = stdout \o << Out("Failed to push index to GitHub", INDEX_FILENAME),
                              Out("Done.", None) >>
    /\ Finish
    /\ UNCHANGED << runNo, args, i, contents, files, file_idx, idx_bytes, remote,
                    blob_sha, exc, idx_at_start, otherWrites >>

\* What another client of the repository writes at a path.
OtherBytes(path) ==
    IF path = INDEX_FILENAME THEN ListFile(<< >>) ELSE "-- edited elsewhere"

\* The path the remote call under way addresses.
PendingPath == IF pc = "idx_put" THEN INDEX_FILENAME ELSE fname

\* Another client commits to a path of the repository, between the GET and
\* the PUT main() sends for that path.  (A commit before the GET is an object
\* the GET finds, as it finds the objects of this program's earlier runs; a
\* commit to a path no call is under way for has the effect of one taken
\* before the next call on that path.)
OtherWriter ==
    /\ pc \in {"put_file", "idx_put"}
    /\ otherWrites < MaxOtherWrites
    /\ otherWrites' = otherWrites + 1
    /\ remote' = [remote EXCEPT ![PendingPath] = Blob(OtherBytes(PendingPath))]
    /\ UNCHANGED << runNo, args, pc, i, contents, files, file_idx, idx_bytes,
                    response, existing, blob_sha, calls, stdout, exc, idx_at_start >>

Next ==
    \/ StartRun
    \/ GenerateLocal
    \/ GenerateAI
    \/ ProductionFails
    \/ GetFile
    \/ GetFileRaises
    \/ PutFile
    \/ PutFileRaises
    \/ AfterLoop
    \/ IdxGet
    \/ IdxGetRaises
    \/ IdxPut
    \/ IdxPutRaises
    \/ OtherWriter

Spec == Init /\ [][Next]_vars

\* A step of main() itself (not the start of a run, not another client).
RunStep ==
    \/ GenerateLocal
    \/ GenerateAI
    \/ ProductionFails
    \/ GetFile
    \/ GetFileRaises
    \/ PutFile
    \/ PutFileRaises
    \/ AfterLoop
    \/ IdxGet
    \/ IdxGetRaises
    \/ IdxPut
    \/ IdxPutRaises

\* ------------------------------------------- a damaged manifest, a failing disk
\* The manifest as something other than this program may have left it: not
\* JSON, a JSON object, a JSON scalar, an array of things that are no objects.
DamagedManifests ==
    { CorruptFile("unparseable"), CorruptFile("object"), CorruptFile("scalar"),
      ListFile(<< NotADict >>) }

InitFault ==
    /\ InitCommon
    /\ file_idx \in {MissingFile, ListFile(<< >>)} \cup DamagedManifests
    /\ idx_at_start = file_idx

\* Lines 194-195 failing part-way: open(idx_path, "w") has truncated the file
\* and json.dump (or the close that flushes it) raises OSError.
PartialWrite == CorruptFile("partial")

\* Lines 284-288 with the manifest write of line 288 failing part-way: the
\* artifact file is written, the OSError is not caught and ends the run.
IndexWriteFails ==
    /\ pc = "generate"
    /\ i <= Len(Batch)
    /\ ~update_local_index(file_idx, fname, args.mode, NoSha, Now).raised
    /\ \E c \in (IF args.mode = "local" THEN {generate_local_script(stype)}
                 ELSE AIContents) :
          /\ contents' = c
          /\ files' = [files EXCEPT ![fname] = c]
    /\ file_idx' = PartialWrite
    /\ stdout' = Append(stdout, Out("Saved", fname))
    /\ pc' = "raised"
    /\ exc' = "OSError"
    /\ calls' = << >>
    /\ UNCHANGED << runNo, args, i, idx_bytes, remote, response, existing,
                    blob_sha, idx_at_start, otherWrites >>

\* Lines 297-303 with the put succeeding and the manifest write of line 301
\* failing part-way: the OSError is caught at line 302 and the loop goes on.
PutFileIndexWriteFails ==
    /\ pc = "put_file"
    /\ LET req == gh_put_request(fname, contents, ExpectedSha(existing))
           r == StorePut(remote, req, 0)
       IN  /\ PutSucceeded(r)
           /\ ~update_local_index(file_idx, fname, args.mode, r.sha, Now).raised
           /\ calls' = Append(calls, req)
           /\ remote' = r.store
           /\ blob_sha' = r.sha
    /\ file_idx' = PartialWrite
    /\ stdout' = stdout \o << Out("Pushed", fname),
                              Out("Failed to push file to GitHub", fname) >>
    /\ LeaveArtifact
    /\ UNCHANGED << runNo, args, contents, files, idx_bytes, exc, idx_at_start,
                    otherWrites >>

NextFault ==
    \/ Next
    \/ IndexWriteFails
    \/ PutFileIndexWriteFails

SpecFault == InitFault /\ [][NextFault]_vars

\* =================================================================== claims
\* Reading the manifest and the two logs.
Entries == file_idx.entries
HasEntry(file, path) ==
    \E k \in 1..Len(file.entries) : file.entries[k].dict /\ file.entries[k].path = path
\* The blob_sha of the entry with the path (NoSha when there is none).
ShaIn(file, path) ==
    IF HasEntry(file, path)
        THEN LET k == CHOOSE k \in 1..Len(file.entries) :
                          file.entries[k].dict /\ file.entries[k].path = path
             IN  file.entries[k].blob_sha
        ELSE NoSha
Printed(msg, file) == \E k \in 1..Len(stdout) : stdout[k] = Out(msg, file)
PushFailed(f) == Printed("Failed to push file to GitHub", f)
Pushed(f) == Printed("Pushed", f)
Called(method, path) ==
    \E k \in 1..Len(calls) : calls[k].method = method /\ calls[k].path = path
BatchFiles == { Batch[k].fname : k \in 1..Len(Batch) }
\* The artifacts of the batch whose iteration is over.
DoneFiles == { Batch[k].fname : k \in { n \in 1..Len(Batch) : n < i } }
NoCredential == args.repo = None \/ args.github_token = None

\* C1: starting from a missing or empty manifest, the manifest never holds two
\* entries with the same path, whatever files are processed over the runs.
C1_OnePerPath ==
    \A a, b \in 1..Len(Entries) :
        Entries[a].path = Entries[b].path => a = b

\* C1 witness: a path that was in the manifest when the run began has been
\* processed again, beside another path.
C1_Reprocessed ==
    /\ runNo = 2
    /\ Len(Entries) = 2
    /\ \E k \in 1..2 : /\ Entries[k].timestamp = 2
                       /\ HasEntry(idx_at_start, Entries[k].path)

\* C2 as claimed: after a failed push, an entry that held a remote hash from
\* an earlier successful push still holds that hash.
C2_KeepsEarlierHash ==
    \A f \in Fnames :
        (PushFailed(f) /\ ShaIn(idx_at_start, f) # NoSha)
            => ShaIn(file_idx, f) = ShaIn(idx_at_start, f)

\* C2 amended: the step in which a push fails leaves the manifest as the run's
\* local index update wrote it: the artifact's entry is there with a null hash
\* (an earlier run's hash is already overwritten).
C2_FailedPushLeavesIndexUpdate ==
    [][ \A f \in Fnames :
            (PushFailed(f)' /\ ~PushFailed(f))
                => /\ file_idx' = file_idx
                   /\ HasEntry(file_idx', f)
                   /\ ShaIn(file_idx', f) = NoSha ]_vars

\* C2 witness: a push has failed for an entry that held a hash when the run
\* began, and the entry's hash is null.
C2_FailedAfterEarlierSuccess ==
    \E f \in Fnames :
        /\ PushFailed(f)
        /\ ShaIn(idx_at_start, f) # NoSha
        /\ ShaIn(file_idx, f) = NoSha

\* C3 as claimed: a put follows only a fetch answered 200 (descriptor) or 404
\* (absent); any other status is an error and no put follows it.
C3_OnlyNotFoundIsAbsent ==
    pc \in {"put_file", "idx_put"} => response.status \in {200, 404}

\* C4: in local generation mode with the push asked for, no outcome of a
\* remote call ends the run: every artifact whose iteration is over was
\* written, indexed and push-attempted, the run can always take its next
\* step, and when it is done all artifacts were processed and the manifest
\* push was attempted.
C4_RemoteFailureNeverAborts ==
    (runNo > 0 /\ args.mode = "local" /\ ~NoCredential) =>
        /\ pc # "raised"
        /\ \A k \in 1..Len(Batch) :
              k < i =>
                  LET f == Batch[k].fname IN
                  /\ Printed("Saved", f)
                  /\ files[f] = LOCAL_TEMPLATES[Batch[k].stype]
                  /\ Printed("Updated local index", f)
                  /\ HasEntry(file_idx, f)
                  /\ Pushed(f) \/ PushFailed(f)
        /\ pc = "done" =>
              /\ i = Len(Batch) + 1
              /\ Called("GET", INDEX_FILENAME)
              /\ Printed("Done.", None)
        /\ pc # "done" => ENABLED RunStep

\* C4 witness: a finished run of both artifacts in which the push of the
\* first failed and the second was pushed all the same.
C4_FailedThenPushed ==
    /\ pc = "done"
    /\ args.mode = "local"
    /\ args.type = "both"
    /\ PushFailed("ronavi_server.lua")
    /\ Pushed("ronavi_local.lua")
    /\ Called("PUT", INDEX_FILENAME)

\* C5: the put of the manifest is the last call of the run, made when every
\* artifact of the batch has had its push attempt; the bytes put are the local
\* manifest, holding for each artifact the hash of its put in this batch, or
\* null where its push failed.
C5_ManifestPushedLast ==
    /\ pc \in {"idx_get", "idx_put"} =>
          /\ idx_bytes = file_idx
          /\ i = Len(Batch) + 1
    /\ \A n \in 1..Len(calls) :
          (calls[n].method = "PUT" /\ calls[n].path = INDEX_FILENAME) =>
              /\ n = Len(calls)
              /\ calls[n].content = file_idx
              /\ \A f \in BatchFiles :
                    /\ Pushed(f) \/ PushFailed(f)
                    /\ ShaIn(calls[n].content, f) =
                          IF Pushed(f) THEN Sha(files[f]) ELSE NoSha

\* C5 witness: the manifest has been put after one artifact was pushed and
\* the push of the other failed.
C5_ManifestPutAfterMixedBatch ==
    /\ pc = "done"
    /\ Called("PUT", INDEX_FILENAME)
    /\ \E f, g \in BatchFiles : Pushed(f) /\ PushFailed(g)

\* C6 as claimed: a save of the manifest is all-or-nothing; whenever the file
\* changes, what it holds is a complete index.
C6_SaveAllOrNothing ==
    [][ file_idx' # file_idx => file_idx'.kind = "list" ]_vars

\* C7 as claimed: when the manifest is missing or damaged (not JSON, a JSON
\* object or scalar, an array of things that are no entries), the upsert of an
\* artifact raises nothing and writes a manifest of exactly the new entry.
\* (The steps in which the production or the disk fails are set aside.)
C7_DamagedManifestIsEmpty ==
    [][ ( /\ pc = "generate"
          /\ i <= Len(Batch)
          /\ file_idx \in {MissingFile} \cup DamagedManifests
          /\ exc' \notin ProductionErrors \cup {"OSError"} )
        => /\ exc' = None
           /\ pc' # "raised"
           /\ file_idx'.kind = "list"
           /\ Len(file_idx'.entries) = 1
           /\ file_idx'.entries[1].dict
           /\ file_idx'.entries[1].path = fname ]_vars

\* C8: in a run without --github-token or without --repo no request is sent;
\* every artifact whose iteration is over has its file and its manifest entry,
\* written in this run with a null hash; every entry written in this run has a
\* null hash; a local-mode run is never cut short and ends with all artifacts
\* processed.
C8_NoCredentialNoRemoteCall ==
    (runNo > 0 /\ NoCredential) =>
        /\ calls = << >>
        /\ \A k \in 1..Len(Batch) :
              k < i =>
                  /\ Printed("Saved", Batch[k].fname)
                  /\ files[Batch[k].fname] \in
                        (IF args.mode = "local"
                            THEN {LOCAL_TEMPLATES[Batch[k].stype]} ELSE AIContents)
                  /\ HasEntry(file_idx, Batch[k].fname)
        /\ \A k \in 1..Len(Entries) :
              Entries[k].timestamp = Now => Entries[k].blob_sha = NoSha
        /\ \A f \in DoneFiles :
              \E k \in 1..Len(Entries) :
                  Entries[k].path = f /\ Entries[k].timestamp = Now
        /\ args.mode = "local" => pc # "raised"
        /\ pc = "done" => i = Len(Batch) + 1

\* C8 witness: a second run, given a repository and no token, is done with
\* both artifacts while the repository holds objects of an earlier run.
C8_LocalOnlyAfterSyncedRun ==
    /\ runNo = 2
    /\ pc = "done"
    /\ args.repo # None
    /\ args.github_token = None
    /\ args.type = "both"
    /\ remote["ronavi_server.lua"].exists
    /\ ShaIn(idx_at_start, "ronavi_server.lua") # NoSha
    /\ ShaIn(file_idx, "ronavi_server.lua") = NoSha

\* C9: the put of an artifact follows the GET of the same path, and the sha it
\* carries is the sha that GET returned: none exactly when gh_get_file
\* returned no descriptor.
C9_PutCarriesFetchedSha ==
    [][ (pc = "put_file" /\ Len(calls') = Len(calls) + 1)
        => LET put == calls'[Len(calls')]
               get == calls[Len(calls)]
           IN  /\ put.method = "PUT"
               /\ put.path = fname
               /\ get.method = "GET"
               /\ get.path = put.path
               /\ put.sha = (IF response.status = 200 THEN response.sha ELSE NoSha)
               /\ put.sha = NoSha <=> ~existing.found ]_vars

\* C9 witness: an artifact has been put with the sha of an existing object
\* that holds other bytes than the artifact's.
C9_UpdatePut ==
    \E n \in 1..Len(calls) :
        /\ calls[n].method = "PUT"
        /\ calls[n].path \in Fnames
        /\ calls[n].sha # NoSha
        /\ calls[n].sha # Sha(calls[n].content)

Overwritten(f) ==
    IF response.status = 200
        THEN ~(remote[f].exists /\ Sha(remote[f].content) = response.sha)
        ELSE remote[f].exists

\* C11: when another client has changed the path between the GET and the put
\* of an artifact, the put fails (the store, when it answers the request at
\* all, refuses it as a conflict), the repository keeps what the other client
\* wrote, the manifest entry keeps its null hash, and the run goes on to the
\* next artifact with exactly one put sent for the path.
C11_ConflictNoRetry ==
    [][ \A f \in Fnames :
            (pc = "put_file" /\ f = fname /\ pc' # "put_file" /\ Overwritten(f))
                => /\ PushFailed(f)'
                   /\ ~Pushed(f)'
                   /\ remote' = remote
                   /\ file_idx' = file_idx
                   /\ ShaIn(file_idx', f) = NoSha
                   /\ blob_sha' = blob_sha
                   /\ pc' = "generate"
                   /\ i' = i + 1
                   /\ Cardinality({ n \in 1..Len(calls') :
                                       calls'[n].method = "PUT" }) = 1
                   /\ calls'[Len(calls')].path = f
                   /\ StorePut(remote, calls'[Len(calls')], 0).status \in {409, 422}
      ]_vars

\* C11 witness: a put carrying the sha of the artifact's own earlier bytes has
\* failed on a path that holds what the other client wrote after the GET.
C11_OtherWriterWon ==
    \E n \in 1..Len(calls) :
        LET f == calls[n].path IN
        /\ calls[n].method = "PUT"
        /\ f \in Fnames
        /\ calls[n].sha = Sha(files[f])
        /\ remote[f] = Blob(OtherBytes(f))
        /\ PushFailed(f)
        /\ ShaIn(file_idx, f) = NoSha

\* The step runs update_local_index for f to its end: the local index update
\* of an artifact, or the update that follows a successful put.
UpsertStep(f) ==
    \/ pc = "generate" /\ i <= Len(Batch) /\ f = fname /\ pc' # "raised"
    \/ pc = "put_file" /\ f = fname /\ Pushed(f)'

\* The hash update_local_index is given in the step.
UpsertSha == IF pc = "generate" THEN NoSha ELSE blob_sha'

\* C12: the step in which the manifest gets an entry for a path it had none
\* for makes the manifest one entry longer, the new entry (name, path, source,
\* timestamp, hash of the call) is the last one, and every entry that was
\* there is unchanged at its position.
C12_NewPathAppended ==
    [][ \A f \in Fnames :
            (~HasEntry(file_idx, f) /\ HasEntry(file_idx', f))
                => /\ UpsertStep(f)
                   /\ file_idx'.kind = "list"
                   /\ Len(file_idx'.entries) = Len(Entries) + 1
                   /\ LET e == file_idx'.entries[Len(Entries) + 1] IN
                      /\ e.name = f
                      /\ e.path = f
                      /\ e.source = args.mode
                      /\ e.timestamp = Now
                      /\ e.blob_sha = UpsertSha
                   /\ \A k \in 1..Len(Entries) : file_idx'.entries[k] = Entries[k]
      ]_vars

\* C12 witness: a path new to the manifest was appended in a second run behind
\* the pushed entry of the first run.
C12_AppendedBehindEarlierEntry ==
    /\ runNo = 2
    /\ Len(Entries) = 2
    /\ Entries[1].timestamp = 1
    /\ Entries[1].blob_sha # NoSha
    /\ Entries[2].timestamp = 2
    /\ ~HasEntry(idx_at_start, Entries[2].path)

\* C13: a step that runs update_local_index for a path the manifest has an
\* entry for overwrites name, source, timestamp and hash of that entry where
\* it stands; the number of entries and all other entries are unchanged.  No
\* step changes the path at a position: the order of paths is the order in
\* which they were first processed.
C13_ExistingPathUpdatedInPlace ==
    [][ /\ \A f \in Fnames :
              (HasEntry(file_idx, f) /\ UpsertStep(f))
                  => /\ file_idx'.kind = "list"
                     /\ Len(file_idx'.entries) = Len(Entries)
                     /\ \A k \in 1..Len(Entries) :
                           file_idx'.entries[k] =
                               IF Entries[k].path = f
                                   THEN [dict |-> TRUE, name |-> f, path |-> f,
                                         source |-> args.mode, timestamp |-> Now,
                                         blob_sha |-> UpsertSha]
                                   ELSE Entries[k]
        /\ Len(file_idx'.entries) >= Len(Entries)
        /\ \A k \in 1..Len(Entries) : file_idx'.entries[k].path = Entries[k].path
      ]_vars

\* C13 witness: the first entry of the manifest, written by a local-mode run
\* and pushed, was overwritten by an ai-mode run; the second entry is the
\* earlier run's still.
C13_FirstEntryOverwritten ==
    /\ runNo = 2
    /\ Len(Entries) = 2
    /\ Len(idx_at_start.entries) = 2
    /\ idx_at_start.entries[1].source = "local"
    /\ idx_at_start.entries[1].blob_sha # NoSha
    /\ Entries[1].source = "ai"
    /\ Entries[1].timestamp = 2
    /\ Entries[1].blob_sha = NoSha
    /\ Entries[2] = idx_at_start.entries[2]

\* An entry without its timestamp.
Timeless(e) == [name |-> e.name, path |-> e.path, source |-> e.source,
                blob_sha |-> e.blob_sha]

\* C14: a step that runs update_local_index for a path with the values the
\* path's entry already has (name, source, hash) leaves a manifest equal,
\* timestamps aside, to the one before the step, with exactly one entry for
\* the path, and that entry has the timestamp of this call.
C14_UpsertTwiceAsOnce ==
    [][ \A f \in Fnames :
            ( /\ UpsertStep(f)
              /\ \E k \in 1..Len(Entries) :
                    /\ Entries[k].path = f
                    /\ Entries[k].name = f
                    /\ Entries[k].source = args.mode
                    /\ Entries[k].blob_sha = UpsertSha )
                => /\ Len(file_idx'.entries) = Len(Entries)
                   /\ \A k \in 1..Len(Entries) :
                         Timeless(file_idx'.entries[k]) = Timeless(Entries[k])
                   /\ Cardinality({ k \in 1..Len(file_idx'.entries) :
                                       file_idx'.entries[k].path = f }) = 1
                   /\ \A k \in 1..Len(Entries) :
                         file_idx'.entries[k].timestamp =
                             IF Entries[k].path = f THEN Now ELSE Entries[k].timestamp
      ]_vars

\* C14 witness: a second run has indexed again, with the values of the first
\* run, the first of two paths the first run indexed.
C14_IndexedAgainWithSameValues ==
    /\ runNo = 2
    /\ Len(Entries) = 2
    /\ Len(idx_at_start.entries) = 2
    /\ Entries[1].timestamp = 2
    /\ idx_at_start.entries[1].timestamp = 1
    /\ Timeless(Entries[1]) = Timeless(idx_at_start.entries[1])
    /\ Entries[2] = idx_at_start.entries[2]

\* C15 as claimed: no step removes an entry; a path that has an entry in the
\* manifest has one after every step (index update, push attempt, start of a
\* later run).
C15_NoEntryDeleted ==
    [][ \A f \in Fnames : HasEntry(file_idx, f) => HasEntry(file_idx', f) ]_vars

\* C16: an entry with a hash holds the hash the store gives the bytes that
\* are in the local file of its path; while the push of a regenerated
\* artifact is under way its entry has no hash.
C16_HashIsOfLocalBytes ==
    /\ \A k \in 1..Len(Entries) :
          Entries[k].blob_sha # NoSha =>
              /\ files[Entries[k].path] # None
              /\ Entries[k].blob_sha = Sha(files[Entries[k].path])
              /\ remote[Entries[k].path].exists
    /\ pc \in {"get_file", "put_file"} => ShaIn(file_idx, fname) = NoSha

\* C16 witness: an artifact pushed by an earlier run was regenerated with
\* other bytes and pushed again; its entry holds another hash than before.
C16_RepushedWithNewBytes ==
    \E f \in Fnames :
        /\ ShaIn(idx_at_start, f) # NoSha
        /\ ShaIn(file_idx, f) # NoSha
        /\ ShaIn(file_idx, f) # ShaIn(idx_at_start, f)

\* C17 as claimed: whenever the repository holds a manifest, the GET of the
\* manifest push makes the run observe it and its hash, and the put that
\* follows carries the hash observed (update, not create), in every run.
C17_ManifestPushIsUpdate ==
    [][ /\ (pc = "idx_get" /\ pc' = "idx_put" /\ remote[INDEX_FILENAME].exists)
            => /\ existing'.found
               /\ existing'.sha = Sha(remote[INDEX_FILENAME].content)
        /\ (pc = "idx_put" /\ pc' = "done")
            => /\ calls'[Len(calls')].method = "PUT"
               /\ calls'[Len(calls')].path = INDEX_FILENAME
               /\ calls'[Len(calls')].sha = existing.sha
      ]_vars

\* C18: the steps of the manifest push leave the local manifest as it is,
\* whatever their outcome, and no step writes a manifest with an entry whose
\* path is the manifest file: the paths of the entries are artifact files.
C18_ManifestNotSelfReferential ==
    [][ /\ pc \in {"idx_get", "idx_put"} => file_idx' = file_idx
        /\ \A k \in 1..Len(file_idx'.entries) :
              /\ file_idx'.entries[k].path # INDEX_FILENAME
              /\ file_idx'.entries[k].path \in Fnames
      ]_vars

\* C18 witness: the manifest has been pushed in a second run over the one the
\* first run pushed; the repository holds the bytes of the local manifest.
C18_ManifestPushedAgain ==
    /\ runNo = 2
    /\ pc = "done"
    /\ Printed("Pushed index", INDEX_FILENAME)
    /\ calls[Len(calls)].sha # NoSha
    /\ Len(Entries) >= 1
    /\ remote[INDEX_FILENAME] = Blob(file_idx)

\* C19: in ai mode the step in which the production raises ends the run and
\* changes no file, no manifest and no repository object and sends nothing.
\* A run ended that way takes no further step; the artifact that failed and
\* those behind it were not saved, the manifest push was not attempted, and
\* the artifacts before it have their files and their entries of this run.
C19_ProductionFailureAbortsRun ==
    [][ /\ (pc = "generate" /\ exc' \in ProductionErrors /\ exc' # exc)
            => /\ args.mode = "ai"
               /\ pc' = "raised"
               /\ i' = i
               /\ files' = files
               /\ file_idx' = file_idx
               /\ remote' = remote
               /\ calls' = calls
               /\ stdout' = stdout
        /\ (pc = "raised" /\ exc \in ProductionErrors)
            => /\ ~ENABLED RunStep
               /\ i <= Len(Batch)
               /\ \A k \in 1..Len(Batch) :
                     LET f == Batch[k].fname IN
                     IF k < i
                        THEN /\ Printed("Saved", f)
                             /\ files[f] \in AIContents
                             /\ \E n \in 1..Len(Entries) :
                                   Entries[n].path = f /\ Entries[n].timestamp = Now
                        ELSE /\ ~Printed("Saved", f)
                             /\ ~Printed("Updated local index", f)
                             /\ ~Pushed(f)
                             /\ ~PushFailed(f)
                             /\ \A n \in 1..Len(calls) : calls[n].path # f
               /\ ~Printed("Pushed index", INDEX_FILENAME)
               /\ ~Printed("Failed to push index to GitHub", INDEX_FILENAME)
               /\ ~Printed("Done.", None)
               /\ \A n \in 1..Len(calls) : calls[n].path # INDEX_FILENAME
      ]_vars

\* C19 witness: the production of the second artifact failed after the first
\* was saved, indexed and pushed.
C19_SecondProductionFailed ==
    /\ pc = "raised"
    /\ exc \in ProductionErrors
    /\ i = 2
    /\ Pushed("ronavi_server.lua")
    /\ ShaIn(file_idx, "ronavi_server.lua") # NoSha
    /\ ~HasEntry(file_idx, "ronavi_local.lua")

====
